---- MODULE Spec2Model ----
(***************************************************************************)
(* Model of the NAD receiver telnet client (src/intg-nad/client.py):       *)
(* the command correlator _send_command, the power monitor loop, the       *)
(* start/stop of a monitoring session, connect/close, and the volume       *)
(* conversions of get_volume / set_volume.                                 *)
(*                                                                         *)
(* Text is modelled as a sequence of tokens: a path word such as           *)
(* "Main.Volume" is one token, every other character is a token of its     *)
(* own ("=", "?", "-", "4", "6", " ", ...).                                *)
(***************************************************************************)
EXTENDS Integers, Sequences, FiniteSets, TLC

\* ------------------------------------------------------------------------
\* Text helpers (Python str operations used by client.py)
\* ------------------------------------------------------------------------

None == <<"None">>

WhiteSpace == {" ", "\r", "\n"}

DigitChars == <<"0", "1", "2", "3", "4", "5", "6", "7", "8", "9">>

IsDigit(c) == \E i \in 1..10 : DigitChars[i] = c

DigitVal(c) == (CHOOSE i \in 1..10 : DigitChars[i] = c) - 1

\* str.startswith
StartsWith(s, p) == Len(p) <= Len(s) /\ SubSeq(s, 1, Len(p)) = p

\* "x in s" for a one-token needle
Contains(s, c) == \E i \in 1..Len(s) : s[i] = c

\* index of the first occurrence of token c in s, Len(s)+1 when there is none
RECURSIVE IndexFrom(_, _, _)
IndexFrom(s, c, i) ==
    IF i > Len(s) THEN Len(s) + 1
    ELSE IF s[i] = c THEN i ELSE IndexFrom(s, c, i + 1)

\* s.split("=")[0]
SplitHead(s) == SubSeq(s, 1, IndexFrom(s, "=", 1) - 1)

\* s.split("=")[1]  (only used where "=" in s)
SplitSecond(s) ==
    LET i == IndexFrom(s, "=", 1)
        j == IndexFrom(s, "=", i + 1)
    IN  SubSeq(s, i + 1, j - 1)

\* str.strip()
RECURSIVE LStrip(_)
LStrip(s) == IF s # <<>> /\ Head(s) \in WhiteSpace THEN LStrip(Tail(s)) ELSE s

RECURSIVE RStrip(_)
RStrip(s) ==
    IF s # <<>> /\ s[Len(s)] \in WhiteSpace
    THEN RStrip(SubSeq(s, 1, Len(s) - 1)) ELSE s

Strip(s) == RStrip(LStrip(s))

\* value.replace("dB", "")
RECURSIVE RemoveDB(_)
RemoveDB(s) ==
    IF Len(s) = 0 THEN s
    ELSE IF Len(s) >= 2 /\ s[1] = "d" /\ s[2] = "B"
         THEN RemoveDB(SubSeq(s, 3, Len(s)))
         ELSE <<Head(s)>> \o RemoveDB(Tail(s))

\* command.replace("?", "=")
\* str.replace("?", "=", 1)
ReplaceFirstQ(s) ==
    [i \in 1..Len(s) |-> IF i = IndexFrom(s, "?", 1) THEN "=" ELSE s[i]]

\* str.replace("?", "=")
ReplaceQ(s) == [i \in 1..Len(s) |-> IF s[i] = "?" THEN "=" ELSE s[i]]

\* str(n) for a non-negative integer
RECURSIVE DigitsOf(_)
DigitsOf(n) ==
    IF n < 10 THEN <<DigitChars[n + 1]>>
    ELSE DigitsOf(n \div 10) \o <<DigitChars[(n % 10) + 1]>>

\* f"{n}" for an integer
FormatInt(n) == IF n < 0 THEN <<"-">> \o DigitsOf(-n) ELSE DigitsOf(n)

RECURSIVE DigitsValue(_, _)
DigitsValue(s, acc) ==
    IF s = <<>> THEN acc
    ELSE DigitsValue(Tail(s), acc * 10 + DigitVal(Head(s)))

AllDigits(s) == s # <<>> /\ \A i \in 1..Len(s) : IsDigit(s[i])

\* An optional integer is <<>> (Python None) or the one-element tuple <<n>>
NoInt == <<>>
Some(n) == <<n>>

\* int(s): surrounding whitespace and one leading sign are accepted; anything
\* else raises ValueError, modelled as NoInt
ParseInt(s) ==
    LET t == Strip(s)
        signed == t # <<>> /\ Head(t) \in {"-", "+"}
        body == IF signed THEN Tail(t) ELSE t
    IN  IF ~AllDigits(body) THEN NoInt
        ELSE IF signed /\ Head(t) = "-" THEN Some(0 - DigitsValue(body, 0))
        ELSE Some(DigitsValue(body, 0))

\* int(x) of the float a / b, b > 0: truncation towards zero
TruncDiv(a, b) == IF a >= 0 THEN a \div b ELSE 0 - ((0 - a) \div b)

Max(a, b) == IF a >= b THEN a ELSE b
Min(a, b) == IF a <= b THEN a ELSE b

\* round-half-even of a / b for a >= 0, b > 0 (Python round); used only to
\* state the conversion formulas of the specification
RoundDiv(a, b) ==
    LET q == a \div b
        r == a % b
    IN  IF 2 * r > b THEN q + 1
        ELSE IF 2 * r < b THEN q
        ELSE IF q % 2 = 0 THEN q ELSE q + 1

\* ------------------------------------------------------------------------
\* Exceptions: the classes raised by the modelled failures and the handlers
\* of client.py
\* ------------------------------------------------------------------------

\* subclasses of Exception; asyncio.CancelledError is not one of them
ExceptionSubclasses ==
    {"OSError", "EOFError", "AttributeError", "UnicodeDecodeError", "ValueError",
     "RuntimeError"}

\* "except <handler>" catches exc
Catches(handler, exc) ==
    CASE handler = "Exception" -> exc \in ExceptionSubclasses
      [] handler = "ValueError" -> exc \in {"ValueError", "UnicodeDecodeError"}
      [] handler = "OSError" -> exc = "OSError"
      [] OTHER -> FALSE

\* what a domain operation gives its caller when the ValueError of int()
\* escapes it (neither None, <<>>, nor a value, <<v>>)
Raise == <<"raise", "ValueError">>

\* line 129: except Exception
read_handler == "Exception"

\* line 137 catching transport errors only
send_handler_oserror == "OSError"

\* line 137: except Exception
send_handler == "Exception"

\* lines 187 and 279: except ValueError
value_handler == "ValueError"

\* line 426 catching transport errors only
monitor_handler_oserror == "OSError"

\* line 426: except Exception
monitor_handler == "Exception"

\* round-to-nearest (half-even) of a / b for any integer a, b > 0; used only
\* to state the conversion formulas of the specification
RoundNearest(a, b) == IF a >= 0 THEN RoundDiv(a, b) ELSE 0 - RoundDiv(0 - a, b)

\* ------------------------------------------------------------------------
\* Volume conversion (get_volume / set_volume)
\* ------------------------------------------------------------------------

MinDb == 92
MaxUi == 100

\* set_volume: the command put on the wire for a requested volume
set_volume_command(volume) ==
    LET v == Max(0, Min(MaxUi, volume))
        db == TruncDiv(v * MinDb - MinDb * 100, 100)
    IN  <<"Main.Volume", "=">> \o FormatInt(db)

\* get_volume: the value decoded from a response line (NoInt when absent)
get_volume(response) ==
    IF response = None \/ response = <<>> \/ ~Contains(response, "=") THEN NoInt
    ELSE LET value == Strip(SplitSecond(response)) IN
         IF StartsWith(value, <<"-">>)
         THEN LET db == ParseInt(RemoveDB(value)) IN
              IF db = NoInt
              THEN IF Catches(value_handler, "ValueError") THEN NoInt ELSE Raise
              ELSE Some(Max(0, Min(MaxUi, TruncDiv((db[1] + MinDb) * 100, MinDb))))
         ELSE Some(0)


\* ------------------------------------------------------------------------
\* Decoding of the other domain operations
\* ------------------------------------------------------------------------

\* str.lower() on the letters that occur in the modelled texts
LowerChar(c) ==
    CASE c = "O" -> "o"
      [] c = "N" -> "n"
      [] c = "F" -> "f"
      [] c = "B" -> "b"
      [] OTHER -> c

\* str.lower() that leaves the text as it is
LowerIdentity(s) == s

\* str.lower()
Lower(s) == [i \in 1..Len(s) |-> LowerChar(s[i])]

\* value.lower() == "on" (lines 151, 238, 403)
ParseOn(value) == Lower(value) = <<"o", "n">>

\* get_power, lines 149-152: NoInt is Python None, otherwise <<TRUE>> / <<FALSE>>
get_power(response) ==
    IF response = None \/ response = <<>> \/ ~Contains(response, "=") THEN NoInt
    ELSE Some(ParseOn(Strip(SplitSecond(response))))

\* get_mute, lines 236-239
get_mute(response) ==
    IF response = None \/ response = <<>> \/ ~Contains(response, "=") THEN NoInt
    ELSE Some(ParseOn(Strip(SplitSecond(response))))

\* the monitor loop's decoding of a Main.Power= line, lines 402-403
monitor_power_on(result) == Some(ParseOn(Strip(SplitSecond(result))))

\* get_source, lines 275-281: ValueError of int() is caught and None returned
get_source(response) ==
    IF response = None \/ response = <<>> \/ ~Contains(response, "=") THEN NoInt
    ELSE LET source == ParseInt(Strip(SplitSecond(response))) IN
         IF source = NoInt /\ ~Catches(value_handler, "ValueError") THEN Raise
         ELSE source

\* "return response is not None" for a response about the volume only
set_result_volume_only(response) ==
    response # None /\ StartsWith(response, <<"Main.Volume">>)

\* set_power, set_volume, set_mute, set_source, volume_up, volume_down:
\* "return response is not None" (lines 166, 206, 216, 226, 253, 295)
set_result(response) == response # None

\* ------------------------------------------------------------------------
\* Bounds and program constants of the state machine
\* ------------------------------------------------------------------------

NumCallers == 2      \* concurrent callers of domain operations
MaxTasks == 2        \* monitor tasks (= monitoring sessions) ever created
MaxStream == 1       \* lines buffered on the connection
MaxSkip == 1         \* cap on skipped_count
MaxConns == 2        \* telnet handles that can exist at once
TimeoutTicks == 4    \* self.timeout, in ticks of a quarter second

read_timeout == 2            \* 0.5 s per read, in ticks
max_consecutive_errors == 5

\* line 364: seconds between reconnect attempts
reconnect_delay == 10

Callers == 1..NumCallers
Tasks == 1..MaxTasks
Handles == 1..MaxConns

CR == <<"\r", "\n">>

CmdVolumeQ == <<"Main.Volume", "?">>
CmdPowerOn == <<"Main.Power", "=", "O", "n">>
CmdVolumeUp == <<"Main.Volume", "+">>

Commands == {CmdVolumeQ, CmdPowerOn, CmdVolumeUp}

LinePowerOn == <<"Main.Power", "=", "O", "n">> \o CR
LineTemp == <<"Main.Temp.1", "=", "4", "5">> \o CR
LineVolume == <<"Main.Volume", "=", "-", "4", "6">> \o CR
LineBlank == CR
LineVolumeBad == <<"Main.Volume", "=", "-", "d", "B">> \o CR

\* unsolicited lines the receiver emits on its own
PushLines == {LinePowerOn, LineTemp}

\* the line the receiver answers a command with
DeviceReply(command) ==
    IF command[1] = "Main.Power" THEN LinePowerOn ELSE LineVolume

VARIABLES
    tn,              \* self._tn: 0 (None) or the handle of the Telnet object
    openConns,       \* handles whose socket is open
    stream,          \* lines received on the connection and not yet read, each
                     \* with the caller whose command it answers (0: unsolicited)
    wire,            \* command the receiver has received and not yet answered
    lock,            \* self._lock: 0 (free) or the caller holding it
    call,            \* per caller: the _send_command invocation
    monitoring,      \* self._monitoring
    monitor_task,    \* self._monitor_task: 0 (None) or a task
    power_callback,  \* self._power_callback: 0 (None) or a callback
    task,            \* per monitor task: position in _monitor_power_loop
    ctl,             \* the task calling connect / close / stop_power_monitoring
    stopped,         \* ghost: callbacks whose stop_power_monitoring has returned
    event,           \* ghost: what the step just taken returned or delivered
    vol,             \* conversion or decoding under test (SpecVolume, SpecDecode)
    standby,         \* the on_exit_standby handler of the driver
    entity           \* the NADRemote entity: stored and published power state

vars == <<tn, openConns, stream, wire, lock, call, monitoring, monitor_task,
          power_callback, task, ctl, stopped, event, vol, standby, entity>>

connVars == <<tn, openConns>>
sendVars == <<lock, call>>
monVars == <<monitoring, monitor_task, power_callback, task>>

NoEvent == [kind |-> "none"]

NoWire == [from |-> 0, cmd |-> <<>>]

IdleCall ==
    [pc |-> "idle", cmd |-> <<>>, expected_prefix |-> None, elapsed |-> 0,
     skipped_count |-> 0, firstMatch |-> None]

NoTask == [pc |-> "unborn", consecutive_errors |-> 0, cancel |-> FALSE, run |-> 0, cb |-> 0]

IdleCtl == [pc |-> "idle", target |-> 0, cb |-> 0, h |-> 0]

IdleStandby == [pc |-> "idle", monitor_power |-> FALSE, attempt |-> 0, log |-> <<>>]

\* remote.py 42 and 53-55: the entity is created off and publishes that
IdleEntity == [state |-> "OFF", published |-> "OFF"]

IdleVol == [pc |-> "off", kind |-> "none", input |-> 0, command |-> <<>>,
            response |-> None, decoded |-> NoInt]

\* NADClient.__init__: no connection, lock free, no monitoring session
InitClient ==
    /\ tn = 0
    /\ openConns = {}
    /\ stream = <<>>
    /\ wire = NoWire
    /\ lock = 0
    /\ call = [c \in Callers |-> IdleCall]
    /\ monitoring = FALSE
    /\ monitor_task = 0
    /\ power_callback = 0
    /\ task = [t \in Tasks |-> NoTask]
    /\ ctl = IdleCtl
    /\ standby = IdleStandby
    /\ entity = IdleEntity
    /\ stopped = {}
    /\ event = NoEvent

Init == InitClient /\ vol = IdleVol

\* ------------------------------------------------------------------------
\* Connection: connect / close
\* ------------------------------------------------------------------------

FreeHandles == Handles \ openConns

NewHandle == CHOOSE h \in FreeHandles : \A g \in FreeHandles : h <= g

\* connect, line 44: a new Telnet object is assigned to self._tn; whatever
\* self._tn referenced before is not closed
ConnectOk ==
    /\ FreeHandles # {}
    /\ tn' = NewHandle
    /\ openConns' = openConns \cup {NewHandle}
    /\ stream' = <<>>
    /\ wire' = NoWire

\* an open socket that self._tn does not reference and nobody is closing
Leaked == openConns \ {tn, ctl.h}

\* ------------------------------------------------------------------------
\* The receiver
\* ------------------------------------------------------------------------

\* the receiver answers the command it received
DeviceAnswer ==
    /\ wire.from # 0
    /\ tn # 0
    /\ Len(stream) < MaxStream
    /\ stream' = Append(stream, [raw |-> DeviceReply(wire.cmd), re |-> wire.from])
    /\ wire' = NoWire
    /\ event' = NoEvent
    /\ UNCHANGED <<connVars, sendVars, monVars, ctl, stopped, vol, standby, entity>>

\* the receiver emits an unsolicited status line
DevicePush(line) ==
    /\ tn # 0
    /\ Len(stream) < MaxStream
    /\ stream' = Append(stream, [raw |-> line, re |-> 0])
    /\ event' = NoEvent
    /\ UNCHANGED <<connVars, wire, sendVars, monVars, ctl, stopped, vol, standby, entity>>

\* ------------------------------------------------------------------------
\* _send_command
\* ------------------------------------------------------------------------

\* lines 92-97 without the branch for set commands
expected_prefix_queries_only(command) ==
    IF Contains(command, "?") THEN ReplaceQ(command) ELSE None

\* lines 92-97
expected_prefix(command) ==
    IF Contains(command, "?") THEN ReplaceQ(command)
    ELSE IF Contains(command, "=") THEN SplitHead(command) \o <<"=">>
    ELSE None

\* line 121 accepting any line that carries a value
IsExpectedAnyValue(result, prefix) == prefix = None \/ Contains(result, "=")

\* line 121
IsExpected(result, prefix) == prefix = None \/ StartsWith(result, prefix)

\* line 106 with a deadline one read too late
DeadlineOneReadLate(elapsed) == elapsed < TimeoutTicks + read_timeout

\* line 106
DeadlineOpen(elapsed) == elapsed < TimeoutTicks

\* a query command Path? and the prefix Path= of its answer
IsQuery(command) == command # <<>> /\ command[Len(command)] = "?"
QueryPrefix(command) == SubSeq(command, 1, Len(command) - 1) \o <<"=">>

\* a set command Path=<value> and the prefix Path= of its confirmation
IsSet(command) == Contains(command, "=") /\ ~IsQuery(command)
SetPrefix(command) == SubSeq(command, 1, IndexFrom(command, "=", 1))

\* lines 116-127 counting every line that is not the expected one
UnrelatedOrEmpty(result, prefix) == ~IsExpected(result, prefix)

\* lines 116-127: the line is not empty and not the expected one
Unrelated(result, prefix) == result # <<>> /\ ~IsExpected(result, prefix)

InFlight(c) == call[c].pc \in {"writing", "reading"}

\* what _send_command returned: wrote says that the command was written and
\* the drain loop entered, elapsed is the time spent in the drain loop
Returned(c, cur, result, wrote) ==
    [kind |-> "return", c |-> c, cmd |-> cur.cmd, result |-> result,
     wrote |-> wrote, elapsed |-> cur.elapsed,
     skipped_count |-> cur.skipped_count, firstMatch |-> cur.firstMatch]

\* an exception left _send_command
Raised(c, cur, exc) == [kind |-> "raise", c |-> c, cmd |-> cur.cmd, exc |-> exc]

\* a failing send that returns None without leaving "async with"
SendFailsHoldingLock(c, cur, exc, wrote) ==
    /\ lock' = lock
    /\ call' = [call EXCEPT ![c] = IdleCall]
    /\ event' = IF Catches(send_handler, exc)
                THEN Returned(c, cur, None, wrote)
                ELSE Raised(c, cur, exc)

\* an exception raised by the write or left uncaught by the drain loop: the
\* lock is released on leaving "async with" and the handler of lines 137-139
\* returns None
SendFails(c, cur, exc, wrote) ==
    /\ lock' = 0
    /\ call' = [call EXCEPT ![c] = IdleCall]
    /\ event' = IF Catches(send_handler, exc)
                THEN Returned(c, cur, None, wrote)
                ELSE Raised(c, cur, exc)

\* what self._tn.write raises: AttributeError when self._tn is None
WriteFailure == IF tn = 0 THEN "AttributeError" ELSE "OSError"

\* what the read and the decoding of line 112 raise
ReadFailures == IF tn = 0 THEN {"AttributeError"} ELSE {"EOFError", "UnicodeDecodeError"}

\* line 80 without mutual exclusion
LockFreeIgnored == TRUE

\* lock acquisition at line 80: the lock is taken only when it is free
LockFree == lock = 0

\* line 76 never taken
NotConnectedIgnored == FALSE

\* line 76: if not self._tn
NotConnected == tn = 0

\* lines 76-87 for a caller that finds the lock free; lines 76-80 otherwise
Call(c, command) ==
    /\ call[c].pc = "idle"
    /\ IF NotConnected
       THEN /\ call' = call
            /\ lock' = lock
            /\ event' = Returned(c, [IdleCall EXCEPT !.cmd = command], None, FALSE)
       ELSE IF LockFree
       THEN /\ lock' = c
            /\ call' = [call EXCEPT ![c] = [IdleCall EXCEPT !.cmd = command, !.pc = "writing"]]
            /\ event' = NoEvent
       ELSE /\ lock' = lock
            /\ call' = [call EXCEPT ![c] = [IdleCall EXCEPT !.cmd = command, !.pc = "waitlock"]]
            /\ event' = NoEvent
    /\ UNCHANGED <<connVars, stream, wire, monVars, ctl, stopped, vol, standby, entity>>

\* line 80 after waiting, then lines 81-87; self._tn.write raises when the
\* connection became None meanwhile (lines 137-139)
Acquire(c) ==
    /\ call[c].pc = "waitlock"
    /\ LockFree
    /\ IF tn = 0
       THEN SendFails(c, call[c], WriteFailure, FALSE)
       ELSE /\ lock' = c
            /\ call' = [call EXCEPT ![c].pc = "writing"]
            /\ event' = NoEvent
    /\ UNCHANGED <<connVars, stream, wire, monVars, ctl, stopped, vol, standby, entity>>

\* line 87 returns: the frame is on the wire; lines 92-111 start the drain
WriteDone(c) ==
    /\ call[c].pc = "writing"
    /\ tn # 0
    /\ wire' = [from |-> c, cmd |-> call[c].cmd]
    /\ call' = [call EXCEPT ![c].pc = "reading",
                            ![c].expected_prefix = expected_prefix(call[c].cmd)]
    /\ event' = NoEvent
    /\ UNCHANGED <<connVars, stream, lock, monVars, ctl, stopped, vol, standby, entity>>

\* line 87 raises: lines 137-139
WriteFail(c) ==
    /\ call[c].pc = "writing"
    /\ SendFails(c, call[c], WriteFailure, FALSE)
    /\ UNCHANGED <<connVars, stream, wire, monVars, ctl, stopped, vol, standby, entity>>

\* lines 112-135 for one completed read: raw is the line returned by
\* read_until (<<>> after a read timeout), failed says that the read or the
\* decoding raised, d is the time the read took
Drain(c, raw, failed, d) ==
    LET cur == call[c]
        result == IF failed THEN <<>> ELSE Strip(raw)
        now == cur.elapsed + d
        fm == IF /\ cur.firstMatch = None
                 /\ \/ IsQuery(cur.cmd) /\ StartsWith(result, QueryPrefix(cur.cmd))
                    \/ IsSet(cur.cmd) /\ StartsWith(result, SetPrefix(cur.cmd))
              THEN result ELSE cur.firstMatch
        sk == IF Unrelated(result, cur.expected_prefix)
              THEN cur.skipped_count + 1 ELSE cur.skipped_count
        new == [cur EXCEPT !.elapsed = now, !.skipped_count = sk, !.firstMatch = fm]
    IN  IF result # <<>> /\ IsExpected(result, cur.expected_prefix)
        THEN /\ lock' = 0
             /\ call' = [call EXCEPT ![c] = IdleCall]
             /\ event' = Returned(c, new, result, TRUE)
        ELSE /\ sk <= MaxSkip
             /\ IF DeadlineOpen(now)
                THEN /\ lock' = lock
                     /\ call' = [call EXCEPT ![c] = new]
                     /\ event' = NoEvent
                ELSE /\ lock' = 0
                     /\ call' = [call EXCEPT ![c] = IdleCall]
                     /\ event' = Returned(c, new, None, TRUE)

Durations == 0..read_timeout

\* read_until returns the next buffered line
ReadLine(c, d) ==
    /\ call[c].pc = "reading"
    /\ tn # 0
    /\ stream # <<>>
    /\ Drain(c, Head(stream).raw, FALSE, d)
    /\ stream' = Tail(stream)
    /\ UNCHANGED <<connVars, wire, monVars, ctl, stopped, vol, standby, entity>>

\* read_until returns a line of white space only
ReadBlank(c, d) ==
    /\ call[c].pc = "reading"
    /\ tn # 0
    /\ Drain(c, LineBlank, FALSE, d)
    /\ UNCHANGED <<connVars, stream, wire, monVars, ctl, stopped, vol, standby, entity>>

\* read_until returns b"" after read_timeout
ReadQuiet(c) ==
    /\ call[c].pc = "reading"
    /\ tn # 0
    /\ Drain(c, <<>>, FALSE, read_timeout)
    /\ UNCHANGED <<connVars, stream, wire, monVars, ctl, stopped, vol, standby, entity>>

\* read_until raises (always when self._tn is None): lines 129-132
ReadError(c, d) ==
    /\ call[c].pc = "reading"
    /\ \/ /\ \E exc \in ReadFailures : Catches(read_handler, exc)
          /\ Drain(c, <<>>, TRUE, d)
       \/ \E exc \in ReadFailures :
             /\ ~Catches(read_handler, exc)
             /\ SendFails(c, [call[c] EXCEPT !.elapsed = @ + d], exc, TRUE)
    /\ UNCHANGED <<connVars, stream, wire, monVars, ctl, stopped, vol, standby, entity>>

\* ------------------------------------------------------------------------
\* _monitor_power_loop
\* ------------------------------------------------------------------------

Live(t) == task[t].pc \notin {"unborn", "done"}

PowerPrefix == <<"Main.Power", "=">>

\* line 431 with an off-by-one threshold
TooManyErrorsLate(errors) == errors > max_consecutive_errors

\* line 431
TooManyErrors(errors) == errors >= max_consecutive_errors

\* lines 367-392, from the loop test to the next await: the loop ends when
\* self._monitoring is false (lines 443-445), reconnects when self._tn is
\* None, and otherwise submits a read
LoopTop(t, errors, run) ==
    LET nxt == IF ~monitoring THEN "done"
               ELSE IF tn = 0 THEN "connecting" ELSE "reading"
    IN  /\ task' = [task EXCEPT ![t].pc = nxt,
                                ![t].consecutive_errors = errors,
                                ![t].run = run,
                                ![t].cb = 0]
        /\ monitoring' = monitoring

\* lines 426-441: the handler of any exception raised by the read, the
\* decoding or the callback; run is the number of reads that have now failed
\* in a row
ErrorPath(t, run) ==
    LET errors == task[t].consecutive_errors + 1 IN
    /\ IF TooManyErrors(errors)
       THEN /\ tn' = 0
            /\ openConns' = openConns \ {tn}
            /\ task' = [task EXCEPT ![t].pc = "errsleep",
                                    ![t].consecutive_errors = 0,
                                    ![t].run = 0, ![t].cb = 0]
       ELSE /\ UNCHANGED connVars
            /\ task' = [task EXCEPT ![t].pc = "errsleep",
                                    ![t].consecutive_errors = errors,
                                    ![t].run = run, ![t].cb = 0]
    /\ monitoring' = monitoring
    /\ event' = [kind |-> "monerr", t |-> t, run |-> run,
                 closed |-> TooManyErrors(errors)]

\* an exception raised inside the try of lines 385-417: handled at lines
\* 426-441 when the handler catches its class; otherwise it leaves the loop
\* through the finally of lines 443-445 and ends the task
MonFails(t, exc, run) ==
    IF Catches(monitor_handler, exc)
    THEN ErrorPath(t, run)
    ELSE /\ task' = [task EXCEPT ![t] = [NoTask EXCEPT !.pc = "done"]]
         /\ monitoring' = FALSE
         /\ UNCHANGED connVars
         /\ event' = [kind |-> "monraise", t |-> t, exc |-> exc]

\* lines 407-411: what the callback of the integration may raise
CallbackFailures == {"RuntimeError"}

\* line 344: the task awaited by stop_power_monitoring has ended, so the
\* stopping task is already scheduled to resume; it runs before any wait
\* that is still in progress (a read, a connect, a sleep) can complete
StopReady == ctl.pc = "stopping" /\ task[ctl.target].pc = "done"

\* the task created at line 334 runs for the first time; tasks run in the
\* order they were scheduled, so an older task that has been cancelled ends
\* before a newer one starts
MonBegin(t) ==
    /\ task[t].pc = "created"
    /\ ~task[t].cancel
    /\ \A u \in Tasks : ~(Live(u) /\ task[u].cancel)
    /\ LoopTop(t, 0, 0)
    /\ event' = NoEvent
    /\ UNCHANGED <<connVars, stream, wire, sendVars, monitor_task, power_callback,
                   ctl, stopped, vol, standby, entity>>

\* CancelledError is raised at the await the task is suspended in (lines
\* 423-425, 443-445); a task cancelled before its first step never runs.
\* The executor thread of an abandoned read may still take a line, and the
\* Telnet object of an abandoned connect is never assigned.
MonCancelled(t, lost) ==
    /\ Live(t)
    /\ task[t].cancel
    /\ task' = [task EXCEPT ![t] = [NoTask EXCEPT !.pc = "done"]]
    /\ monitoring' = IF task[t].pc = "created" THEN monitoring ELSE FALSE
    /\ IF lost /\ task[t].pc = "reading" /\ stream # <<>> /\ tn # 0
       THEN stream' = Tail(stream) /\ UNCHANGED connVars
       ELSE IF lost /\ task[t].pc = "connecting" /\ FreeHandles # {}
       THEN stream' = stream /\ tn' = tn /\ openConns' = openConns \cup {NewHandle}
       ELSE stream' = stream /\ UNCHANGED connVars
    /\ event' = NoEvent
    /\ UNCHANGED <<wire, sendVars, monitor_task, power_callback, ctl, stopped, vol, standby, entity>>

\* lines 372-375 and 385-392: connect succeeded
MonConnectOk(t) ==
    /\ task[t].pc = "connecting"
    /\ ~task[t].cancel
    /\ ~StopReady
    /\ ConnectOk
    /\ task' = [task EXCEPT ![t].pc = "reading", ![t].consecutive_errors = 0,
                            ![t].run = 0]
    /\ event' = NoEvent
    /\ UNCHANGED <<sendVars, monitoring, monitor_task, power_callback, ctl,
                   stopped, vol, standby, entity>>

\* lines 376-378 pausing as after a read error instead of the reconnect delay
MonConnectFailShortPause(t) ==
    /\ task[t].pc = "connecting"
    /\ ~task[t].cancel
    /\ ~StopReady
    /\ task' = [task EXCEPT ![t].pc = "errsleep"]
    /\ event' = NoEvent
    /\ UNCHANGED <<connVars, stream, wire, sendVars, monitoring, monitor_task,
                   power_callback, ctl, stopped, vol, standby, entity>>

\* lines 376-378: connect returned False
MonConnectFail(t) ==
    /\ task[t].pc = "connecting"
    /\ ~task[t].cancel
    /\ ~StopReady
    /\ task' = [task EXCEPT ![t].pc = "backoff"]
    /\ event' = [kind |-> "backoff", t |-> t, delay |-> reconnect_delay]
    /\ UNCHANGED <<connVars, stream, wire, sendVars, monitoring, monitor_task,
                   power_callback, ctl, stopped, vol, standby, entity>>

\* lines 378-379: the reconnect delay is over
MonBackoffEnd(t) ==
    /\ task[t].pc = "backoff"
    /\ ~task[t].cancel
    /\ ~StopReady
    /\ LoopTop(t, task[t].consecutive_errors, task[t].run)
    /\ event' = NoEvent
    /\ UNCHANGED <<connVars, stream, wire, sendVars, monitor_task, power_callback,
                   ctl, stopped, vol, standby, entity>>

\* a command that has been written and whose deadline has not been seen to pass
Pending(c) == call[c].pc = "reading"

\* the line is the receiver's answer to a command that is still pending and
\* starts with the prefix that command expects
AnswersPending(line) ==
    /\ line.re # 0
    /\ Pending(line.re)
    /\ call[line.re].expected_prefix # None
    /\ StartsWith(Strip(line.raw), call[line.re].expected_prefix)

\* lines 394-417 for a line returned by read_until
MonReadLine(t) ==
    /\ task[t].pc = "reading"
    /\ ~task[t].cancel
    /\ ~StopReady
    /\ tn # 0
    /\ stream # <<>>
    /\ LET result == Strip(Head(stream).raw)
           power == StartsWith(result, PowerPrefix)
       IN  /\ stream' = Tail(stream)
           /\ event' = [kind |-> "monline", t |-> t, power |-> power,
                        invoked |-> IF power THEN power_callback ELSE 0,
                        pending |-> AnswersPending(Head(stream))]
           /\ IF power
              THEN IF power_callback # 0
                   THEN /\ task' = [task EXCEPT ![t].pc = "callback",
                                                ![t].run = 0,
                                                ![t].cb = power_callback]
                        /\ monitoring' = monitoring
                   ELSE LoopTop(t, 0, 0)
              ELSE LoopTop(t, task[t].consecutive_errors, 0)
    /\ UNCHANGED <<connVars, wire, sendVars, monitor_task, power_callback, ctl,
                   stopped, vol, standby, entity>>

\* lines 394-397 for b"" (nothing arrived within a second) or a blank line
MonReadQuiet(t) ==
    /\ task[t].pc = "reading"
    /\ ~task[t].cancel
    /\ ~StopReady
    /\ tn # 0
    /\ LoopTop(t, task[t].consecutive_errors, 0)
    /\ event' = NoEvent
    /\ UNCHANGED <<connVars, stream, wire, sendVars, monitor_task, power_callback,
                   ctl, stopped, vol, standby, entity>>

\* lines 419-422: the read raised TimeoutError
MonReadTimeoutError(t) ==
    /\ task[t].pc = "reading"
    /\ ~task[t].cancel
    /\ ~StopReady
    /\ tn # 0
    /\ LoopTop(t, 0, 0)
    /\ event' = NoEvent
    /\ UNCHANGED <<connVars, stream, wire, sendVars, monitor_task, power_callback,
                   ctl, stopped, vol, standby, entity>>

\* lines 426-441: the read raised (always when self._tn is None)
MonReadError(t) ==
    /\ task[t].pc = "reading"
    /\ ~task[t].cancel
    /\ ~StopReady
    /\ \/ /\ \E exc \in ReadFailures : Catches(monitor_handler, exc)
          /\ ErrorPath(t, task[t].run + 1)
       \/ \E exc \in ReadFailures :
             /\ ~Catches(monitor_handler, exc)
             /\ MonFails(t, exc, task[t].run + 1)
    /\ UNCHANGED <<stream, wire, sendVars, monitor_task, power_callback, ctl,
                   stopped, vol, standby, entity>>

\* lines 409-413: the callback returned
MonCallbackReturn(t) ==
    /\ task[t].pc = "callback"
    /\ ~task[t].cancel
    /\ ~StopReady
    /\ LoopTop(t, 0, 0)
    /\ event' = NoEvent
    /\ UNCHANGED <<connVars, stream, wire, sendVars, monitor_task, power_callback,
                   ctl, stopped, vol, standby, entity>>

\* lines 409 and 426-441: the callback raised
MonCallbackRaise(t) ==
    /\ task[t].pc = "callback"
    /\ ~task[t].cancel
    /\ ~StopReady
    /\ \E exc \in CallbackFailures : MonFails(t, exc, task[t].run)
    /\ UNCHANGED <<stream, wire, sendVars, monitor_task, power_callback, ctl,
                   stopped, vol, standby, entity>>

\* line 441: the one-second pause after an error is over
MonErrSleepEnd(t) ==
    /\ task[t].pc = "errsleep"
    /\ ~task[t].cancel
    /\ ~StopReady
    /\ LoopTop(t, task[t].consecutive_errors, task[t].run)
    /\ event' = NoEvent
    /\ UNCHANGED <<connVars, stream, wire, sendVars, monitor_task, power_callback,
                   ctl, stopped, vol, standby, entity>>

\* ------------------------------------------------------------------------
\* start_power_monitoring / stop_power_monitoring / connect / close, called
\* by the tasks of the integration
\* ------------------------------------------------------------------------

Unborn == {t \in Tasks : task[t].pc = "unborn"}

\* lines 328-335; the callback of the session is identified with its task
start_power_monitoring ==
    /\ ~monitoring
    /\ Unborn # {}
    /\ LET t == CHOOSE u \in Unborn : \A w \in Unborn : u <= w IN
       /\ power_callback' = t
       /\ monitoring' = TRUE
       /\ monitor_task' = t
       /\ task' = [task EXCEPT ![t].pc = "created"]
    /\ event' = NoEvent
    /\ UNCHANGED <<connVars, stream, wire, sendVars, ctl, stopped, vol, standby, entity>>

\* start_power_monitoring without the test of lines 328-330: a second call
\* registers its callback and creates another task
StartAgain ==
    /\ monitoring
    /\ Unborn # {}
    /\ LET t == CHOOSE u \in Unborn : \A w \in Unborn : u <= w IN
       /\ power_callback' = t
       /\ monitoring' = TRUE
       /\ monitor_task' = t
       /\ task' = [task EXCEPT ![t].pc = "created"]
    /\ event' = [kind |-> "start", ignored |-> TRUE]
    /\ UNCHANGED <<connVars, stream, wire, sendVars, ctl, stopped, vol, standby, entity>>

\* lines 328-330: self._monitoring is set, the call logs a warning and returns
StartIgnored ==
    /\ monitoring
    /\ event' = [kind |-> "start", ignored |-> TRUE]
    /\ UNCHANGED <<connVars, stream, wire, sendVars, monVars, ctl, stopped, vol, standby, entity>>

\* stop_power_monitoring that only clears the flag
stop_flag_only ==
    /\ ctl.pc = "idle"
    /\ monitoring
    /\ monitoring' = FALSE
    /\ stopped' = stopped \cup ({power_callback} \ {0})
    /\ event' = NoEvent
    /\ UNCHANGED <<connVars, stream, wire, sendVars, monitor_task, power_callback,
                   task, ctl, vol, standby, entity>>

\* stop_power_monitoring that clears the flag and awaits the task without
\* cancelling it
stop_without_cancel ==
    /\ ctl.pc = "idle"
    /\ monitoring' = FALSE
    /\ IF monitor_task # 0 /\ task[monitor_task].pc # "done"
       THEN /\ ctl' = [ctl EXCEPT !.pc = "stopping", !.target = monitor_task,
                                  !.cb = power_callback]
            /\ UNCHANGED <<monitor_task, power_callback, stopped, task>>
       ELSE /\ monitor_task' = 0
            /\ power_callback' = 0
            /\ stopped' = stopped \cup ({power_callback} \ {0})
            /\ UNCHANGED <<task, ctl>>
    /\ event' = NoEvent
    /\ UNCHANGED <<connVars, stream, wire, sendVars, vol, standby, entity>>

\* lines 339-344, and 348-350 when there is no running task to wait for
stop_power_monitoring ==
    /\ ctl.pc = "idle"
    /\ monitoring' = FALSE
    /\ IF monitor_task # 0 /\ task[monitor_task].pc # "done"
       THEN /\ task' = [task EXCEPT ![monitor_task].cancel = TRUE]
            /\ ctl' = [ctl EXCEPT !.pc = "stopping", !.target = monitor_task,
                                  !.cb = power_callback]
            /\ UNCHANGED <<monitor_task, power_callback, stopped>>
       ELSE /\ monitor_task' = 0
            /\ power_callback' = 0
            /\ stopped' = stopped \cup ({power_callback} \ {0})
            /\ UNCHANGED <<task, ctl>>
    /\ event' = NoEvent
    /\ UNCHANGED <<connVars, stream, wire, sendVars, vol, standby, entity>>

\* lines 344-350: the awaited task has ended
StopReturn ==
    /\ ctl.pc = "stopping"
    /\ task[ctl.target].pc = "done"
    /\ monitor_task' = 0
    /\ power_callback' = 0
    /\ stopped' = stopped \cup ({ctl.cb} \ {0})
    /\ ctl' = IdleCtl
    /\ event' = NoEvent
    /\ UNCHANGED <<connVars, stream, wire, sendVars, monitoring, task, vol, standby, entity>>

\* connect, lines 42-47: the Telnet object is being created
Connect ==
    /\ ctl.pc = "idle"
    /\ ctl' = [ctl EXCEPT !.pc = "connecting"]
    /\ event' = NoEvent
    /\ UNCHANGED <<connVars, stream, wire, sendVars, monVars, stopped, vol, standby, entity>>

\* connect, lines 44-49
CtlConnectOk ==
    /\ ctl.pc = "connecting"
    /\ ConnectOk
    /\ ctl' = IdleCtl
    /\ event' = NoEvent
    /\ UNCHANGED <<sendVars, monVars, stopped, vol, standby, entity>>

\* connect, lines 50-52
CtlConnectFail ==
    /\ ctl.pc = "connecting"
    /\ ctl' = IdleCtl
    /\ event' = NoEvent
    /\ UNCHANGED <<connVars, stream, wire, sendVars, monVars, stopped, vol, standby, entity>>

\* close, lines 56-59
Close ==
    /\ ctl.pc = "idle"
    /\ tn # 0
    /\ ctl' = [ctl EXCEPT !.pc = "closing", !.h = tn]
    /\ event' = NoEvent
    /\ UNCHANGED <<connVars, stream, wire, sendVars, monVars, stopped, vol, standby, entity>>

\* close, lines 59-64
CloseReturn ==
    /\ ctl.pc = "closing"
    /\ openConns' = openConns \ {ctl.h}
    /\ tn' = 0
    /\ ctl' = IdleCtl
    /\ event' = NoEvent
    /\ UNCHANGED <<stream, wire, sendVars, monVars, stopped, vol, standby, entity>>

\* close, lines 56 and 64: there is no connection, nothing is done
CloseAbsent ==
    /\ ctl.pc = "idle"
    /\ tn = 0
    /\ event' = [kind |-> "closed", had |-> FALSE, raised |-> FALSE]
    /\ UNCHANGED <<connVars, stream, wire, sendVars, monVars, ctl, stopped, vol, standby, entity>>

\* close that leaves self._tn alone when closing the transport raised
CloseRaiseNoFinally ==
    /\ ctl.pc = "closing"
    /\ openConns' = openConns \ {ctl.h}
    /\ tn' = tn
    /\ ctl' = IdleCtl
    /\ event' = [kind |-> "closed", had |-> TRUE, raised |-> TRUE]
    /\ UNCHANGED <<stream, wire, sendVars, monVars, stopped, vol, standby, entity>>

\* close, lines 59-64: closing the transport raised; the error is logged and
\* self._tn is cleared by the finally; the socket releases its descriptor
\* also when closing it reports an error
CloseRaise ==
    /\ ctl.pc = "closing"
    /\ openConns' = openConns \ {ctl.h}
    /\ tn' = 0
    /\ ctl' = IdleCtl
    /\ event' = [kind |-> "closed", had |-> TRUE, raised |-> TRUE]
    /\ UNCHANGED <<stream, wire, sendVars, monVars, stopped, vol, standby, entity>>

\* a Telnet object that nothing references any more is closed when the
\* interpreter collects it; the client itself never closes it
Collect ==
    /\ Leaked # {}
    /\ \E h \in Leaked : openConns' = openConns \ {h}
    /\ tn' = tn
    /\ event' = NoEvent
    /\ UNCHANGED <<stream, wire, sendVars, monVars, ctl, stopped, vol, standby, entity>>

\* ------------------------------------------------------------------------
\* The state machines
\* ------------------------------------------------------------------------

Device ==
    \/ DeviceAnswer
    \/ \E line \in PushLines : DevicePush(line)

Senders ==
    \/ \E c \in Callers, command \in Commands : Call(c, command)
    \/ \E c \in Callers : Acquire(c)
    \/ \E c \in Callers : WriteDone(c)
    \/ \E c \in Callers : WriteFail(c)
    \/ \E c \in Callers, d \in Durations : ReadLine(c, d)
    \/ \E c \in Callers, d \in Durations : ReadBlank(c, d)
    \/ \E c \in Callers : ReadQuiet(c)
    \/ \E c \in Callers, d \in Durations : ReadError(c, d)

\* the monitor loop as a reader of the connection
MonitorReads ==
    \/ \E t \in Tasks : MonBegin(t)
    \/ \E t \in Tasks : MonConnectOk(t)
    \/ \E t \in Tasks : MonReadLine(t)
    \/ \E t \in Tasks : MonReadQuiet(t)
    \/ \E t \in Tasks : MonCallbackReturn(t)

\* the monitor loop as a supervisor of the connection
MonitorErrors ==
    \/ \E t \in Tasks : MonConnectFail(t)
    \/ \E t \in Tasks : MonBackoffEnd(t)
    \/ \E t \in Tasks : MonReadTimeoutError(t)
    \/ \E t \in Tasks : MonReadError(t)
    \/ \E t \in Tasks : MonCallbackRaise(t)
    \/ \E t \in Tasks : MonErrSleepEnd(t)

Monitor == MonitorReads \/ MonitorErrors

Connection ==
    \/ Connect
    \/ CtlConnectOk
    \/ CtlConnectFail
    \/ Close
    \/ CloseReturn

Sessions ==
    \/ start_power_monitoring
    \/ stop_power_monitoring
    \/ StopReturn
    \/ \E t \in Tasks, lost \in BOOLEAN : MonCancelled(t, lost)

\* the client with every actor
Next == Device \/ Senders \/ Monitor \/ Connection \/ Sessions

Spec == Init /\ [][Next]_vars

\* callers of domain operations next to one monitoring session: the monitor
\* loop as a second reader of the stream
NextShared == Device \/ Senders \/ MonitorReads \/ Connection \/ start_power_monitoring

SpecShared == Init /\ [][NextShared]_vars

\* connect as the integration calls it, on a client that has no connection:
\* a new client (driver.py 43-54) or one just disconnected (driver.py 200-207)
ConnectFresh == tn = 0 /\ Connect

\* callers of domain operations on a connection that comes and goes; to a
\* caller a line taken by another reader is a line that never arrived, and a
\* connection the monitor loop force-closes is a connection closed
NextSend ==
    \/ Device
    \/ DevicePush(LineVolumeBad)
    \/ Senders
    \/ ConnectFresh
    \/ CtlConnectOk
    \/ CtlConnectFail
    \/ Close
    \/ CloseReturn

SpecSend == Init /\ [][NextSend]_vars

\* NADRemote.connect connects before it starts monitoring (remote.py 66, 84)
\* and on_exit_standby after it has stopped monitoring (driver.py 195-207)
ConnectBetweenSessions == ~monitoring /\ ConnectFresh

\* NADRemote.disconnect closes after stop_power_monitoring (remote.py 97-100)
CloseBetweenSessions == ~monitoring /\ Close

\* monitoring sessions started and stopped, no commands
NextMonitor ==
    \/ \E line \in PushLines : DevicePush(line)
    \/ Monitor
    \/ ConnectBetweenSessions \/ CtlConnectOk \/ CtlConnectFail
    \/ CloseBetweenSessions \/ CloseReturn
    \/ Sessions

SpecMonitor == Init /\ [][NextMonitor]_vars

\* NADRemote.connect starts monitoring after connect has returned
\* (remote.py 66-84)
StartAfterConnect == ctl.pc = "idle" /\ start_power_monitoring

\* the connection as the integration and the monitor loop open and close it:
\* devices connected, disconnected and resumed, the loop reconnecting
NextConnection ==
    \/ \E t \in Tasks : MonBegin(t)
    \/ \E t \in Tasks : MonConnectOk(t)
    \/ \E t \in Tasks : MonConnectFail(t)
    \/ \E t \in Tasks : MonBackoffEnd(t)
    \/ \E t \in Tasks : MonReadQuiet(t)
    \/ \E t \in Tasks : MonReadError(t)
    \/ \E t \in Tasks : MonErrSleepEnd(t)
    \/ StartAfterConnect
    \/ stop_power_monitoring
    \/ StopReturn
    \/ \E t \in Tasks, lost \in BOOLEAN : MonCancelled(t, lost)
    \/ ConnectBetweenSessions \/ CtlConnectOk \/ CtlConnectFail
    \/ CloseBetweenSessions \/ CloseReturn \/ CloseRaise
    \/ (~monitoring /\ CloseAbsent)
    \/ Collect

SpecConnection == Init /\ [][NextConnection]_vars

\* one device monitored and stopped, the loop making its own connection:
\* the loop in each of its waits
NextStop ==
    \/ DevicePush(LinePowerOn)
    \/ Monitor
    \/ Sessions

\* the event loop runs every task that is ready: a cancelled task receives
\* its CancelledError, and the task awaiting it resumes once it has ended;
\* nothing is assumed about reads, connects and sleeps completing
FairStop ==
    /\ \A t \in Tasks : WF_vars(\E lost \in BOOLEAN : MonCancelled(t, lost))
    /\ WF_vars(StopReturn)

SpecStop == Init /\ [][NextStop]_vars /\ FairStop

\* callers of get_volume contending for the lock while the receiver answers
\* and pushes, and the connection is closed and opened under them
NextToken ==
    \/ DeviceAnswer
    \/ DevicePush(LineTemp)
    \/ \E c \in Callers : Call(c, CmdVolumeQ)
    \/ \E c \in Callers : Acquire(c)
    \/ \E c \in Callers : WriteDone(c)
    \/ \E c \in Callers : WriteFail(c)
    \/ \E c \in Callers, d \in Durations : ReadLine(c, d)
    \/ \E c \in Callers : ReadQuiet(c)
    \/ \E c \in Callers, d \in Durations : ReadError(c, d)
    \/ ConnectFresh
    \/ CtlConnectOk
    \/ Close
    \/ CloseReturn

\* line 87: the write submitted to the executor returns or raises
WriteEnds(c) == WriteDone(c) \/ WriteFail(c)

\* lines 106-132: the clock read at line 106 advances; every pass of the
\* drain loop awaits an executor call, and a read returns within read_timeout
TimePasses(c) ==
    \/ \E d \in Durations \ {0} : ReadLine(c, d) \/ ReadError(c, d)
    \/ ReadQuiet(c)

\* the event loop runs every task that is ready, writes and reads end, time
\* passes, and asyncio.Lock wakes its waiters in the order they arrived, so
\* a waiter is not passed over for ever
FairToken ==
    \A c \in Callers :
        /\ WF_vars(WriteEnds(c))
        /\ WF_vars(TimePasses(c))
        /\ SF_vars(Acquire(c))

SpecToken == Init /\ [][NextToken]_vars /\ FairToken

\* sessions started, started again and stopped by the integration, the loop
\* making its own connection and listening
NextStart ==
    \/ start_power_monitoring
    \/ StartIgnored
    \/ stop_power_monitoring
    \/ StopReturn
    \/ \E t \in Tasks : MonBegin(t)
    \/ \E t \in Tasks : MonConnectOk(t)
    \/ \E t \in Tasks : MonReadQuiet(t)
    \/ \E t \in Tasks : MonReadLine(t)
    \/ \E t \in Tasks : MonCallbackReturn(t)
    \/ \E t \in Tasks, lost \in BOOLEAN : MonCancelled(t, lost)
    \/ DevicePush(LinePowerOn)

SpecStart == Init /\ [][NextStart]_vars

\* volume_up called next to one monitoring session on an open connection
NextBare ==
    \/ Device
    \/ \E c \in Callers : Call(c, CmdVolumeUp)
    \/ \E c \in Callers : Acquire(c)
    \/ \E c \in Callers : WriteDone(c)
    \/ \E c \in Callers, d \in Durations : ReadLine(c, d)
    \/ \E c \in Callers : ReadQuiet(c)
    \/ MonitorReads
    \/ start_power_monitoring
    \/ ConnectFresh
    \/ CtlConnectOk

SpecBare == Init /\ [][NextBare]_vars

\* what the domain operation that sent the command reports for the response
\* _send_command returned: get_volume for Main.Volume?, set_power and
\* volume_up for the other two commands
DomainResult(command, response) ==
    IF command = CmdVolumeQ THEN get_volume(response)
    ELSE Some(set_result(response))

\* ------------------------------------------------------------------------
\* The volume conversions as a state machine: a requested volume is encoded
\* by set_volume, the receiver reports a dB value, get_volume decodes it
\* ------------------------------------------------------------------------

VolMargin == 3       \* requested volumes tried beyond 0..MaxUi
DbMargin == 3        \* reported dB values tried beyond -MinDb..0

VolumeInputs == (0 - VolMargin)..(MaxUi + VolMargin)
DbInputs == (0 - MinDb - DbMargin)..DbMargin

InitVolume ==
    /\ InitClient
    /\ \/ \E v \in VolumeInputs : vol = [IdleVol EXCEPT !.pc = "request", !.kind = "ui", !.input = v]
       \/ \E db \in DbInputs : vol = [IdleVol EXCEPT !.pc = "report", !.kind = "db", !.input = db]

clientVars == <<tn, openConns, stream, wire, lock, call, monitoring, monitor_task,
                power_callback, task, ctl, stopped, event, standby, entity>>

\* set_volume, lines 202-205
VolSet ==
    /\ vol.pc = "request"
    /\ vol' = [vol EXCEPT !.pc = "sent", !.command = set_volume_command(vol.input)]
    /\ UNCHANGED clientVars

\* the receiver answers with the dB value it was sent
VolEcho ==
    /\ vol.pc = "sent"
    /\ vol' = [vol EXCEPT !.pc = "answered", !.response = vol.command \o CR]
    /\ UNCHANGED clientVars

\* the receiver reports a dB value
VolReport ==
    /\ vol.pc = "report"
    /\ vol' = [vol EXCEPT !.pc = "answered",
                          !.response = <<"Main.Volume", "=">> \o FormatInt(vol.input) \o CR]
    /\ UNCHANGED clientVars

\* get_volume, lines 175-189, on the line _send_command returns (line 112)
VolGet ==
    /\ vol.pc = "answered"
    /\ vol' = [vol EXCEPT !.pc = "decoded", !.decoded = get_volume(Strip(vol.response))]
    /\ UNCHANGED clientVars

NextVolume == VolSet \/ VolEcho \/ VolReport \/ VolGet

SpecVolume == InitVolume /\ [][NextVolume]_vars

\* the dB value carried by a text Main.Volume=<db>
DbOf(text) == ParseInt(SplitSecond(text))

Abs(n) == IF n < 0 THEN 0 - n ELSE n

\* ------------------------------------------------------------------------
\* The decoding of a response as a state machine: _send_command has returned
\* a line Path=<value> that matched the query's prefix, the domain operation
\* (or the monitor loop, for Main.Power=) decodes the value
\* ------------------------------------------------------------------------

MaxValueLen == 4     \* length of the value text after "="

ValueChars == {"O", "o", "N", "n", "f", "1", "-", "d", "B", " "}

ValueStrings == UNION {[1..n -> ValueChars] : n \in 0..MaxValueLen}

\* the path queried by each decoder
DecoderPath ==
    [power |-> "Main.Power", mute |-> "Main.Mute", monitor |-> "Main.Power",
     source |-> "Main.Source", volume |-> "Main.Volume"]

Decoders == DOMAIN DecoderPath

\* the line as _send_command (line 112) or the monitor loop (line 394)
\* hands it on: decoded and stripped
InitDecode ==
    /\ InitClient
    /\ \E k \in Decoders, value \in ValueStrings :
          vol = [IdleVol EXCEPT !.pc = "returned", !.kind = k,
                                !.response = Strip(<<DecoderPath[k], "=">> \o value \o CR)]

Decode(k, decoded) ==
    /\ vol.pc = "returned"
    /\ vol.kind = k
    /\ vol' = [vol EXCEPT !.pc = "decoded", !.decoded = decoded]
    /\ UNCHANGED clientVars

GetPower == Decode("power", get_power(vol.response))

GetMute == Decode("mute", get_mute(vol.response))

MonPower ==
    /\ StartsWith(vol.response, PowerPrefix)
    /\ Decode("monitor", monitor_power_on(vol.response))

GetSource == Decode("source", get_source(vol.response))

GetVolume == Decode("volume", get_volume(vol.response))

NextDecode == GetPower \/ GetMute \/ MonPower \/ GetSource \/ GetVolume

SpecDecode == InitDecode /\ [][NextDecode]_vars

\* the value text of a line Path=<value>, as the decoders take it
ValueOf(text) == Strip(SplitSecond(text))

\* the spellings of "on"
OnTokens == {<<"o", "n">>, <<"O", "n">>, <<"o", "N">>, <<"O", "N">>}

\* ------------------------------------------------------------------------
\* The prefix derivation of _send_command applied to command texts
\* ------------------------------------------------------------------------

MaxCmdLen == 4       \* tokens in a command text

CmdChars == {"Main.Volume", "?", "=", "+", "-"}

CommandTexts == UNION {[1..n -> CmdChars] : n \in 0..MaxCmdLen}

InitPrefix ==
    /\ InitClient
    /\ \E command \in CommandTexts :
          vol = [IdleVol EXCEPT !.pc = "called", !.kind = "prefix",
                                !.command = command]

\* lines 92-97
DerivePrefix ==
    /\ vol.pc = "called"
    /\ vol.kind = "prefix"
    /\ vol' = [vol EXCEPT !.pc = "derived",
                          !.decoded = expected_prefix(vol.command)]
    /\ UNCHANGED clientVars

SpecPrefix == InitPrefix /\ [][DerivePrefix]_vars

\* ------------------------------------------------------------------------
\* on_exit_standby (driver.py) for one configured device; the handler is the
\* only task that runs, so every call it awaits is taken to its return
\* ------------------------------------------------------------------------

\* driver.py line 203
max_attempts == 3

\* driver.py line 216 with a constant delay
wait_time_constant(attempt) == 2

\* driver.py line 216
wait_time(attempt) == attempt * 2

\* one entry of the record of what the handler did
Did(op, n, ok, secs) ==
    [op |-> op, n |-> n, ok |-> ok, secs |-> secs,
     quiet |-> ~monitoring /\ tn = 0]

\* the states a configured client can be in when the remote wakes up: with or
\* without connection, and with a monitor loop at any of its awaits or none
InitStandby ==
    /\ stream = <<>> /\ wire = NoWire /\ lock = 0
    /\ call = [c \in Callers |-> IdleCall]
    /\ ctl = IdleCtl /\ stopped = {} /\ event = NoEvent
    /\ vol = IdleVol /\ standby = IdleStandby /\ entity = IdleEntity
    /\ \E connected \in BOOLEAN,
          pc \in {"unborn", "reading", "callback", "connecting", "backoff", "errsleep"},
          errors \in 0..(max_consecutive_errors - 1) :
          /\ pc \in {"reading", "callback"} => connected
          /\ pc = "unborn" => errors = 0
          /\ pc \in {"connecting", "backoff"} => ~connected
          /\ tn = (IF connected THEN 1 ELSE 0)
          /\ openConns = (IF connected THEN {1} ELSE {})
          /\ monitoring = (pc # "unborn")
          /\ monitor_task = (IF pc # "unborn" THEN 1 ELSE 0)
          /\ power_callback = (IF pc # "unborn" THEN 1 ELSE 0)
          /\ task = [t \in Tasks |->
                       IF t = 1 /\ pc # "unborn"
                       THEN [NoTask EXCEPT !.pc = pc,
                                           !.consecutive_errors = errors,
                                           !.cb = IF pc = "callback" THEN 1 ELSE 0]
                       ELSE NoTask]

\* stop_power_monitoring taken to its return (client.py 337-350): the loop
\* is cancelled and has ended
StopCompleted ==
    /\ monitoring' = FALSE
    /\ task' = [t \in Tasks |->
                  IF t = monitor_task /\ Live(t)
                  THEN [NoTask EXCEPT !.pc = "done"] ELSE task[t]]
    /\ monitor_task' = 0
    /\ power_callback' = 0
    /\ stopped' = stopped \cup ({power_callback} \ {0})

\* driver.py 181-191: the event arrives, the handler sleeps 3 seconds and
\* tests device._monitor_power, which is true whenever monitoring was started
on_exit_standby(monitor_power) ==
    /\ standby.pc = "idle"
    /\ monitoring => monitor_power
    /\ standby' = [standby EXCEPT !.pc = IF monitor_power THEN "settled" ELSE "done",
                                  !.monitor_power = monitor_power]
    /\ event' = NoEvent
    /\ UNCHANGED <<connVars, stream, wire, sendVars, monVars, ctl, stopped, vol, entity>>

\* driver.py 195-197
SbStop ==
    /\ standby.pc = "settled"
    /\ IF monitoring
       THEN /\ StopCompleted
            /\ standby' = [standby EXCEPT !.pc = "disconnect",
                                          !.log = Append(@, Did("stop", 0, TRUE, 0))]
       ELSE /\ UNCHANGED <<monVars, stopped>>
            /\ standby' = [standby EXCEPT !.pc = "disconnect"]
    /\ event' = NoEvent
    /\ UNCHANGED <<connVars, stream, wire, sendVars, ctl, vol, entity>>

\* driver.py 200, remote.py 92-100: stop_power_monitoring, then close
SbDisconnect ==
    /\ standby.pc = "disconnect"
    /\ StopCompleted
    /\ tn' = 0
    /\ openConns' = openConns \ {tn}
    /\ standby' = [standby EXCEPT !.pc = "attempt", !.attempt = 1,
                                  !.log = Append(@, Did("disconnect", 0, TRUE, 0))]
    /\ event' = NoEvent
    /\ UNCHANGED <<stream, wire, sendVars, ctl, vol, entity>>

\* driver.py 207-210, remote.py 61-86: connect succeeded and monitoring was
\* started again
SbConnectOk ==
    /\ standby.pc = "attempt"
    /\ ConnectOk
    /\ IF ~monitoring /\ Unborn # {}
       THEN LET t == CHOOSE u \in Unborn : \A w \in Unborn : u <= w IN
            /\ power_callback' = t
            /\ monitoring' = TRUE
            /\ monitor_task' = t
            /\ task' = [task EXCEPT ![t].pc = "created"]
       ELSE UNCHANGED monVars
    /\ standby' = [standby EXCEPT !.pc = "done",
                                  !.log = Append(@, Did("connect", standby.attempt, TRUE, 0))]
    /\ event' = NoEvent
    /\ UNCHANGED <<sendVars, ctl, stopped, vol, entity>>

\* driver.py 207-219, remote.py 66-70: connect returned False
SbConnectFail ==
    /\ standby.pc = "attempt"
    /\ standby' = [standby EXCEPT
                      !.pc = IF standby.attempt < max_attempts THEN "waiting" ELSE "done",
                      !.log = Append(@, Did("connect", standby.attempt, FALSE, 0))]
    /\ event' = NoEvent
    /\ UNCHANGED <<connVars, stream, wire, sendVars, monVars, ctl, stopped, vol, entity>>

\* driver.py 215-218: the wait before the next attempt is over
SbWaitEnd ==
    /\ standby.pc = "waiting"
    /\ standby' = [standby EXCEPT
                      !.pc = "attempt", !.attempt = @ + 1,
                      !.log = Append(@, Did("sleep", standby.attempt, TRUE,
                                            wait_time(standby.attempt)))]
    /\ event' = NoEvent
    /\ UNCHANGED <<connVars, stream, wire, sendVars, monVars, ctl, stopped, vol, entity>>

NextStandby ==
    \/ \E monitor_power \in BOOLEAN : on_exit_standby(monitor_power)
    \/ SbStop
    \/ SbDisconnect
    \/ SbConnectOk
    \/ SbConnectFail
    \/ SbWaitEnd

SpecStandby == InitStandby /\ [][NextStandby]_vars

\* ------------------------------------------------------------------------
\* The toggle operations: a query, then a set command that depends on what
\* the query returned
\* ------------------------------------------------------------------------

ToggleChars == {"O", "o", "n", "N", "f", " "}

ToggleValues == UNION {[1..n -> ToggleChars] : n \in 0..MaxValueLen}

\* set_power, line 164
set_power_command(on) ==
    IF on THEN CmdPowerOn ELSE <<"Main.Power", "=", "O", "f", "f">>

\* set_mute, line 251
set_mute_command(muted) ==
    IF muted THEN <<"Main.Mute", "=", "O", "n">> ELSE <<"Main.Mute", "=", "O", "f", "f">>

\* "if current:" in place of the test for None
has_value_truthy(current) == current = Some(TRUE)

\* "if current is not None" (client.py 263, remote.py 164 and 174)
has_value(current) == current # NoInt

\* the paths the toggles query
TogglePath == [toggle_mute |-> "Main.Mute", TOGGLE |-> "Main.Power",
               POWER_TOGGLE |-> "Main.Power"]

\* what the query of a toggle got from _send_command: None, or a stripped
\* line that starts with the expected prefix
InitToggle ==
    /\ InitClient
    /\ \E k \in DOMAIN TogglePath :
          \/ vol = [IdleVol EXCEPT !.pc = "queried", !.kind = k]
          \/ \E value \in ToggleValues :
                vol = [IdleVol EXCEPT !.pc = "queried", !.kind = k,
                          !.response = Strip(<<TogglePath[k], "=">> \o value \o CR)]

\* client.py 262-265: toggle_mute
toggle_mute ==
    /\ vol.pc = "queried"
    /\ vol.kind = "toggle_mute"
    /\ LET current == get_mute(vol.response) IN
       vol' = [vol EXCEPT !.pc = "toggled", !.decoded = current,
                          !.command = IF has_value(current)
                                      THEN set_mute_command(~current[1]) ELSE <<>>]
    /\ UNCHANGED clientVars

\* remote.py 162-165 (Commands.TOGGLE) and 173-176 (POWER_TOGGLE)
PowerToggle(k) ==
    /\ vol.pc = "queried"
    /\ vol.kind = k
    /\ LET power == get_power(vol.response) IN
       vol' = [vol EXCEPT !.pc = "toggled", !.decoded = power,
                          !.command = IF has_value(power)
                                      THEN set_power_command(~power[1]) ELSE <<>>]
    /\ UNCHANGED clientVars

NextToggle == toggle_mute \/ PowerToggle("TOGGLE") \/ PowerToggle("POWER_TOGGLE")

SpecToggle == InitToggle /\ [][NextToggle]_vars

\* ------------------------------------------------------------------------
\* The stored power state of the entity (remote.py): written by update_status
\* and by the callback of the monitor loop, published by update_attributes
\* ------------------------------------------------------------------------

\* States.ON if power else States.OFF (remote.py 110, 119)
StateOf(power_on) == IF power_on THEN "ON" ELSE "OFF"

\* remote.py 118-119 storing off for every result that is not true
stored_state_truthy(state, power) == StateOf(power = Some(TRUE))

\* remote.py 118-119: the stored state follows a get_power result that is
\* not None
stored_state(state, power) == IF power # NoInt THEN StateOf(power[1]) ELSE state

\* what _send_command hands get_power: None after a timeout or without a
\* connection, otherwise a stripped line Main.Power=<value>
PowerValues == UNION {[1..n -> {"O", "n", "f", " "}] : n \in 0..MaxValueLen}

PowerResponses ==
    {None} \cup {Strip(<<"Main.Power", "=">> \o value \o CR) : value \in PowerValues}

\* remote.py 113-124 and 126-136: update_status, then update_attributes
update_status(response) ==
    LET power == get_power(response)
        state == stored_state(entity.state, power)
    IN  /\ entity' = [state |-> state, published |-> state]
        /\ event' = [kind |-> "update_status", response |-> response, power |-> power]
        /\ UNCHANGED <<connVars, stream, wire, sendVars, monVars, ctl, stopped, vol, standby>>

\* remote.py 102-111: the callback of the monitor loop
on_power_change(power_on) ==
    /\ entity' = [state |-> StateOf(power_on), published |-> StateOf(power_on)]
    /\ event' = [kind |-> "power_change", response |-> None, power |-> Some(power_on)]
    /\ UNCHANGED <<connVars, stream, wire, sendVars, monVars, ctl, stopped, vol, standby>>

NextEntity ==
    \/ \E response \in PowerResponses : update_status(response)
    \/ \E power_on \in BOOLEAN : on_power_change(power_on)

SpecEntity == Init /\ [][NextEntity]_vars

\* ------------------------------------------------------------------------
\* NADRemote.disconnect and NADRemote.connect (remote.py) called by one task
\* of the driver, next to the monitor loop of the client
\* ------------------------------------------------------------------------

\* remote.py 92-100 without the call of stop_power_monitoring
disconnect_without_stop(monitor_power) ==
    /\ standby.pc = "idle"
    /\ monitoring => monitor_power
    /\ UNCHANGED <<monVars, stopped>>
    /\ tn' = 0
    /\ openConns' = openConns \ {tn}
    /\ standby' = [standby EXCEPT !.pc = "disconnected", !.monitor_power = monitor_power]
    /\ event' = NoEvent
    /\ UNCHANGED <<stream, wire, sendVars, ctl, vol, entity>>

\* remote.py 92-100: stop_power_monitoring when the device monitors power,
\* then close, each taken to its return; _monitor_power is true whenever
\* monitoring was started (remote.py 82-84)
disconnect(monitor_power) ==
    /\ standby.pc = "idle"
    /\ monitoring => monitor_power
    /\ IF monitor_power THEN StopCompleted ELSE UNCHANGED <<monVars, stopped>>
    /\ tn' = 0
    /\ openConns' = openConns \ {tn}
    /\ standby' = [standby EXCEPT !.pc = "disconnected", !.monitor_power = monitor_power]
    /\ event' = NoEvent
    /\ UNCHANGED <<stream, wire, sendVars, ctl, vol, entity>>

\* remote.py 61-86: connect succeeded; monitoring is started when the device
\* monitors power
RemoteConnectOk ==
    /\ standby.pc = "disconnected"
    /\ Unborn # {}
    /\ ConnectOk
    /\ IF standby.monitor_power /\ ~monitoring
       THEN LET t == CHOOSE u \in Unborn : \A w \in Unborn : u <= w IN
            /\ power_callback' = t
            /\ monitoring' = TRUE
            /\ monitor_task' = t
            /\ task' = [task EXCEPT ![t].pc = "created"]
       ELSE UNCHANGED monVars
    /\ standby' = [standby EXCEPT !.pc = "idle"]
    /\ event' = NoEvent
    /\ UNCHANGED <<sendVars, ctl, stopped, vol, entity>>

\* a device disconnected and connected again while its monitor loop, if it
\* has one, listens, fails and reconnects
NextDisconnect ==
    \/ \E monitor_power \in BOOLEAN : disconnect(monitor_power)
    \/ RemoteConnectOk
    \/ DevicePush(LinePowerOn)
    \/ Monitor

SpecDisconnect == InitStandby /\ [][NextDisconnect]_vars

\* ------------------------------------------------------------------------
\* Properties
\* ------------------------------------------------------------------------

\* C1: no monitor loop has a read in progress on the connection while a
\* command is between writing its frame and returning from _send_command.
MutualExclusion ==
    \A c \in Callers, t \in Tasks : ~(InFlight(c) /\ task[t].pc = "reading")

\* C2: the receiver's answer to a command that is pending (written, deadline
\* not passed), a line that starts with the prefix the command expects, is
\* never consumed by a monitor loop.
NoResponseTheft ==
    event.kind = "monline" => ~event.pending

\* C3: at most one caller is between writing its command and returning from
\* _send_command.
OnePendingCommand ==
    Cardinality({c \in Callers : InFlight(c)}) <= 1

\* two callers contend: one is in flight and another waits for the lock
ContendedLock ==
    \E c, d \in Callers : InFlight(c) /\ call[d].pc = "waitlock"

\* C4: a query Path? that was written returns the first line it read whose
\* trimmed text starts with Path= (absent when it read none), and it reads
\* no further line after that one.
QueryReturnsFirstMatch ==
    /\ \A c \in Callers :
          Pending(c) /\ IsQuery(call[c].cmd) => call[c].firstMatch = None
    /\ (event.kind = "return" /\ event.wrote /\ IsQuery(event.cmd))
          => event.result = event.firstMatch

\* a query returned a matching line after skipping an unrelated one
QueryMatchedAfterSkip ==
    /\ event.kind = "return"
    /\ IsQuery(event.cmd)
    /\ event.result # None
    /\ event.skipped_count >= 1

\* C5: a command that was written returns absent only when, measured from
\* the start of its drain loop, the overall timeout has elapsed, and less
\* than one read_timeout after it, whatever was read meanwhile.
AbsentOnlyAtTimeout ==
    (event.kind = "return" /\ event.wrote /\ event.result = None)
        => /\ event.elapsed >= TimeoutTicks
           /\ event.elapsed < TimeoutTicks + read_timeout

\* a command timed out after skipping an unrelated line, its last read
\* ending after the deadline
TimedOutAfterSkip ==
    /\ event.kind = "return"
    /\ event.wrote
    /\ event.result = None
    /\ event.skipped_count >= 1
    /\ event.elapsed > TimeoutTicks

\* C6: every Main.Power= line a monitor loop reads starts exactly one
\* invocation of the callback, and no two invocations are in progress at once.
CallbackOncePerPowerLine ==
    /\ (event.kind = "monline" /\ event.power)
          => (event.invoked # 0 /\ task[event.t].pc = "callback")
    /\ Cardinality({t \in Tasks : task[t].pc = "callback"}) <= 1

\* C7: a callback whose stop_power_monitoring has returned is not invoked.
NoCallbackAfterStop ==
    event.kind = "monline" => event.invoked \notin stopped

\* a monitor loop reads a Main.Power= line after a stop has returned
PowerLineAfterStop ==
    /\ event.kind = "monline"
    /\ event.power
    /\ stopped # {}

\* C8: the fifth read error in a row makes the monitor loop close the
\* connection (self._tn becomes None); after the pause that follows an error
\* the loop, unless stopped, reconnects when the connection is None; a
\* successful reconnect sets consecutive_errors to 0.
ForcedCloseAndReconnect ==
    [][\A t \in Tasks :
          /\ (/\ task[t].pc = "reading"
              /\ task'[t].pc = "errsleep"
              /\ task[t].run = max_consecutive_errors - 1)
                => (tn' = 0 /\ task'[t].consecutive_errors = 0)
          /\ (/\ task[t].pc = "errsleep"
              /\ task'[t].pc \notin {"errsleep", "done"}
              /\ tn = 0)
                => task'[t].pc = "connecting"
          /\ (task[t].pc = "connecting" /\ task'[t].pc = "reading")
                => (tn' # 0 /\ task'[t].consecutive_errors = 0)
      ]_vars

\* the fifth read error in a row has just closed the connection
FifthErrorClosed ==
    /\ event.kind = "monerr"
    /\ event.run = max_consecutive_errors
    /\ event.closed
    /\ tn = 0

\* C9: for v in 0..100, decoding the dB value that set_volume(v) put on the
\* wire gives a volume within 1 of v.
VolumeRoundTrip ==
    (vol.pc = "decoded" /\ vol.kind = "ui" /\ vol.input \in 0..MaxUi)
        => /\ DbOf(vol.command) = DbOf(vol.response)
           /\ vol.decoded # NoInt
           /\ Abs(vol.decoded[1] - vol.input) <= 1

\* C10: for db in -92..0, get_volume on Main.Volume=<db> returns
\* clamp(0, 100, round((db + 92) * 100 / 92)).
DbToUiRounded ==
    (vol.pc = "decoded" /\ vol.kind = "db" /\ vol.input \in (0 - MinDb)..0)
        => vol.decoded = Some(Max(0, Min(MaxUi, RoundDiv((vol.input + MinDb) * 100, MinDb))))

\* C11: for every requested volume ui, set_volume sends Main.Volume=<db> with
\* db the rounded-to-nearest value of (clamp(ui) * 92 / 100) - 92, which lies
\* in -92..0.
UiToDbRounded ==
    (vol.kind = "ui" /\ vol.pc \in {"sent", "answered", "decoded"})
        => LET ui == Max(0, Min(MaxUi, vol.input))
               db == RoundNearest(ui * MinDb - MinDb * 100, 100)
           IN  /\ vol.command = <<"Main.Volume", "=">> \o FormatInt(db)
               /\ db \in (0 - MinDb)..0

\* C12: get_power, get_mute and the monitor loop decode the value of a line
\* to true when it is "on" in any mix of upper and lower case, and to false
\* for every other text.
BooleanParse ==
    (vol.pc = "decoded" /\ vol.kind \in {"power", "mute", "monitor"})
        => vol.decoded = Some(ValueOf(vol.response) \in OnTokens)

\* the monitor loop has decoded the value "oN" to true
MixedCaseOn ==
    /\ vol.pc = "decoded"
    /\ vol.kind = "monitor"
    /\ ValueOf(vol.response) = <<"o", "N">>
    /\ vol.decoded = Some(TRUE)

\* C20: when the value of a matched response is not a valid integer,
\* get_volume and get_source return absent.
UnparsableIntegerAbsent ==
    (/\ vol.pc = "decoded"
     /\ vol.kind \in {"volume", "source"}
     /\ ParseInt(ValueOf(vol.response)) = NoInt)
        => vol.decoded = NoInt

\* C13: a call of _send_command that finds no connection returns absent in
\* the same step: nothing is written, nothing is read, no time passes, the
\* lock is not waited for; every domain operation then reports absent or
\* false.
NotConnectedFailsFast ==
    [][\A c \in Callers :
          (tn = 0 /\ call[c].pc = "idle")
            => /\ call'[c].pc = "idle"
               /\ (event'.kind = "return" /\ event'.c = c)
                     => /\ event'.result = None
                        /\ ~event'.wrote
                        /\ event'.elapsed = 0
                        /\ wire' = wire
                        /\ stream' = stream
                        /\ lock' = lock
                        /\ DomainResult(event'.cmd, event'.result) \in {NoInt, Some(FALSE)}
                        /\ get_power(event'.result) = NoInt
                        /\ get_mute(event'.result) = NoInt
                        /\ get_source(event'.result) = NoInt
                        /\ ~set_result(event'.result)
      ]_vars

\* a call returned at once for want of a connection while another caller
\* still held the lock
FailedFastBesideHolder ==
    /\ event.kind = "return"
    /\ ~event.wrote
    /\ event.elapsed = 0
    /\ tn = 0
    /\ lock # 0
    /\ lock # event.c

\* C14: no exception leaves _send_command, and the domain operation that
\* sent the command turns what _send_command returned into a value.
NeverRaises ==
    /\ event.kind # "raise"
    /\ event.kind = "return" => DomainResult(event.cmd, event.result) # Raise

\* get_volume was handed a matching line whose value is not a number and
\* reported absent
MalformedVolumeAbsent ==
    /\ event.kind = "return"
    /\ event.cmd = CmdVolumeQ
    /\ event.result = Strip(LineVolumeBad)
    /\ DomainResult(event.cmd, event.result) = NoInt

\* C18: the skip count of a call starts at 0 and grows by one exactly with
\* every non-empty line the call reads that does not start with its expected
\* prefix; empty lines, read timeouts and read errors leave it as it is.
SkipCountExact ==
    [][\A c \in Callers :
          /\ (call[c].pc = "writing" /\ call'[c].pc = "reading")
                => call'[c].skipped_count = 0
          /\ (call[c].pc = "reading" /\ call'[c] # call[c])
                => LET line == IF stream' # stream
                               THEN Strip(Head(stream).raw) ELSE <<>>
                       prefix == call[c].expected_prefix
                       counted == /\ line # <<>>
                                  /\ prefix # None
                                  /\ ~StartsWith(line, prefix)
                       after == IF call'[c].pc = "reading"
                                THEN call'[c].skipped_count
                                ELSE event'.skipped_count
                   IN  after = call[c].skipped_count + (IF counted THEN 1 ELSE 0)
      ]_vars

\* Main.Volume? returned Main.Volume=-46 after one skipped line, decoded as 50
SkippedOneThenVolume50 ==
    /\ event.kind = "return"
    /\ event.cmd = CmdVolumeQ
    /\ event.result = Strip(LineVolume)
    /\ event.skipped_count = 1
    /\ get_volume(event.result) = Some(50)

\* C19: a set command reports success exactly when the call read a line that
\* starts with its Path= prefix; that line ends the call, and it was returned
\* by a read begun before the overall deadline.
SetSucceedsIffConfirmed ==
    /\ \A c \in Callers :
          Pending(c) /\ IsSet(call[c].cmd) => call[c].firstMatch = None
    /\ (event.kind = "return" /\ IsSet(event.cmd))
          => /\ set_result(event.result) <=> event.firstMatch # None
             /\ set_result(event.result)
                   => /\ event.result = event.firstMatch
                      /\ event.elapsed < TimeoutTicks + read_timeout

\* Main.Power=On was sent and Main.Power=On came back at once
SetPowerConfirmedAtOnce ==
    /\ event.kind = "return"
    /\ event.cmd = CmdPowerOn
    /\ event.result = Strip(LinePowerOn)
    /\ event.elapsed = 0
    /\ event.skipped_count = 0
    /\ set_result(event.result)

\* a step in which stop_power_monitoring begins: it cancels and awaits the
\* loop (lines 339-344), or finds no running loop and clears the session
\* without touching a task
StopBegins ==
    \/ ctl.pc = "idle" /\ ctl'.pc = "stopping"
    \/ /\ ctl.pc = "idle" /\ ctl' = ctl /\ task' = task
       /\ <<monitoring, monitor_task, power_callback>>'
             # <<monitoring, monitor_task, power_callback>>

\* a step in which stop_power_monitoring returns, after the await of line
\* 344 or without one
StopReturns ==
    \/ ctl.pc = "stopping" /\ ctl'.pc = "idle"
    \/ StopBegins /\ ctl'.pc = "idle"

\* C15: a monitor loop ends only when it was cancelled or found the running
\* flag cleared, and the flag is cleared only by stop_power_monitoring or by
\* the end of a loop that stop_power_monitoring cancelled, which alone
\* cancels; no read error, failed reconnect or callback failure ends a loop.
MonitorEndsOnlyByStop ==
    [][LET Ends(t) == Live(t) /\ task'[t].pc = "done"
       IN  /\ \A t \in Tasks : Ends(t) => task[t].cancel \/ ~monitoring
           /\ \A t \in Tasks : ~task[t].cancel /\ task'[t].cancel => StopBegins
           /\ (monitoring /\ ~monitoring')
                 => StopBegins \/ \E t \in Tasks : Ends(t) /\ task[t].cancel
      ]_vars

\* a loop that is still running pauses after its callback failed
SurvivedCallbackFailure ==
    /\ event.kind = "monerr"
    /\ \E t \in Tasks : /\ event.t = t
                         /\ task[t].pc = "errsleep"
                         /\ ~task[t].cancel
                         /\ task[t].run = 0
    /\ monitoring

\* C16: a monitor loop that reconnects and takes up listening again queries
\* the power state of the receiver or publishes it through the callback.
RequeryAfterReconnect ==
    [][\A t \in Tasks :
          (task[t].pc = "connecting" /\ task'[t].pc = "reading")
             => \/ wire' # wire /\ wire'.cmd = <<"Main.Power", "?">>
                \/ task'[t].cb # 0
                \/ event'.kind = "monline" /\ event'.invoked # 0
      ]_vars

\* C17: when stop_power_monitoring returns the running flag is false, no
\* callback and no task are referenced, and no monitor loop is running.
StoppedStateCleared ==
    [][StopReturns
          => /\ ~monitoring'
             /\ power_callback' = 0
             /\ monitor_task' = 0
             /\ \A t \in Tasks : task'[t].pc \in {"unborn", "done"}
      ]_vars

\* C21: the expected prefix of a command that contains "?" is the command
\* with every "?" replaced by "="; otherwise, of a command that contains "=",
\* it is the text up to and including the first "="; otherwise there is none.
ExpectedPrefixDerivation ==
    (vol.pc = "derived" /\ vol.kind = "prefix")
       => LET cmd == vol.command
              p == vol.decoded
          IN  IF \E i \in 1..Len(cmd) : cmd[i] = "?"
              THEN /\ Len(p) = Len(cmd)
                   /\ \A i \in 1..Len(cmd) :
                         /\ cmd[i] = "?" => p[i] = "="
                         /\ cmd[i] # "?" => p[i] = cmd[i]
              ELSE IF \E i \in 1..Len(cmd) : cmd[i] = "="
              THEN \E k \in 1..Len(cmd) :
                      /\ cmd[k] = "="
                      /\ \A j \in 1..(k - 1) : cmd[j] # "="
                      /\ p = SubSeq(cmd, 1, k)
              ELSE p = None

\* a set command with a second "=" in its value got the prefix Main.Volume=
SetPrefixStopsAtFirstEquals ==
    /\ vol.pc = "derived"
    /\ vol.kind = "prefix"
    /\ vol.command = <<"Main.Volume", "=", "-", "=">>
    /\ vol.decoded = <<"Main.Volume", "=">>

\* C22: a command without expected prefix returns the first non-empty line
\* it reads, whatever the line says, and its operation reports success; the
\* line is taken off the connection by the command, and when it is a
\* Main.Power= push no callback is invoked for it.
BareAcceptsFirstLine ==
    [][\A c \in Callers :
          (/\ call[c].pc = "reading"
           /\ call[c].expected_prefix = None
           /\ stream' # stream
           /\ call'[c] # call[c])
             => LET line == Strip(Head(stream).raw)
                IN  /\ line # <<>>
                    /\ event'.kind = "return"
                    /\ event'.c = c
                    /\ event'.result = line
                    /\ DomainResult(call[c].cmd, event'.result) = Some(TRUE)
                    /\ stream' = Tail(stream)
                    /\ task' = task
      ]_vars

\* Main.Volume+ returned a Main.Power= push while a monitor loop with a
\* callback was listening
BarePowerPushConsumed ==
    /\ event.kind = "return"
    /\ event.cmd = CmdVolumeUp
    /\ event.result = Strip(LinePowerOn)
    /\ power_callback # 0
    /\ \E t \in Tasks : task[t].pc = "reading" /\ task[t].cb = 0

\* C23: a monitor read that ends with no data leaves the loop listening and
\* sets its consecutive-error counter to 0.
QuietReadResetsErrors ==
    [][\A t \in Tasks :
          (/\ task[t].pc = "reading"
           /\ task'[t].pc = "reading"
           /\ task'[t] # task[t]
           /\ stream' = stream)
             => task'[t].consecutive_errors = 0
      ]_vars

\* C24: the monitor loop force-closes the connection only at the fifth of
\* five reads that failed in a row, with no line and no quiet read between
\* them.
ForcedCloseOnlyAfterFiveInARow ==
    (event.kind = "monerr" /\ event.closed)
        => event.run = max_consecutive_errors

\* C25: a reconnect attempt of the monitor loop that fails is followed by a
\* wait of 10 seconds, whatever came before; when the wait is over the loop,
\* unless stopped, tries again if the connection is still absent; an attempt
\* that succeeds goes on to listening without a wait.
ConstantReconnectBackoff ==
    [][\A t \in Tasks :
          /\ (task[t].pc = "connecting" /\ task'[t].pc # "connecting")
                => \/ task'[t].pc = "reading" /\ tn' # 0
                   \/ /\ task'[t].pc = "backoff"
                      /\ event'.kind = "backoff"
                      /\ event'.t = t
                      /\ event'.delay = 10
                   \/ task'[t].pc = "done" /\ task[t].cancel
          /\ (task[t].pc = "backoff" /\ task'[t].pc # "backoff")
                => \/ task'[t].pc = "done" /\ (task[t].cancel \/ ~monitoring)
                   \/ task'[t].pc = "connecting" /\ tn = 0
                   \/ task'[t].pc = "reading" /\ tn # 0
      ]_vars

\* a loop that is not stopped waits 10 seconds after a failed attempt
WaitingAfterFailedAttempt ==
    /\ event.kind = "backoff"
    /\ event.delay = 10
    /\ monitoring
    /\ tn = 0
    /\ \E t \in Tasks : /\ event.t = t
                         /\ task[t].pc = "backoff"
                         /\ ~task[t].cancel

\* C26: on resume from standby, for a device with power monitoring, every
\* connect attempt is made with monitoring stopped and the connection closed,
\* after the disconnect; there are at most 3 attempts and none after a
\* success; the handler waits 2 s after the first failed attempt, 4 s after
\* the second, and ends without waiting after the third.
ResumeRetrySchedule ==
    LET log == standby.log
        Connects(i) == {j \in 1..i : log[j].op = "connect"}
    IN  /\ Cardinality(Connects(Len(log))) <= 3
        /\ \A i \in 1..Len(log) :
              /\ log[i].op = "connect"
                    => /\ log[i].quiet
                       /\ \E j \in 1..(i - 1) : log[j].op = "disconnect"
                       /\ log[i].n = Cardinality(Connects(i))
                       /\ log[i].ok => i = Len(log)
                       /\ log[i].n > 1 => log[i - 1].op = "sleep"
              /\ log[i].op = "sleep"
                    => /\ i > 1
                       /\ log[i - 1].op = "connect"
                       /\ ~log[i - 1].ok
                       /\ log[i - 1].n \in {1, 2}
                       /\ log[i].secs = (IF log[i - 1].n = 1 THEN 2 ELSE 4)
        /\ (standby.pc = "done" /\ standby.monitor_power)
              => /\ log # <<>>
                 /\ log[Len(log)].op = "connect"
                 /\ log[Len(log)].ok \/ log[Len(log)].n = 3

\* the handler gave up after three failed attempts, having waited 2 s and 4 s
GaveUpAfterThreeAttempts ==
    /\ standby.pc = "done"
    /\ Len(standby.log) >= 5
    /\ LET k == Len(standby.log) IN
       /\ standby.log[k].op = "connect" /\ ~standby.log[k].ok
       /\ standby.log[k - 1].op = "sleep" /\ standby.log[k - 1].secs = 4
       /\ standby.log[k - 3].op = "sleep" /\ standby.log[k - 3].secs = 2
    /\ tn = 0

\* C27: the client holds at most one open physical connection at any time
AtMostOneOpenConnection == Cardinality(openConns) <= 1

\* a step in which a call of close returns
CloseReturns == event'.kind = "closed" \/ (ctl.pc = "closing" /\ ctl'.pc = "idle")

\* a step in which close was called without a connection
CloseWithoutConnection == event'.kind = "closed" /\ ~event'.had

\* C28: after any call of close returns the connection is absent, also when
\* closing the transport raised; close called without a connection (the
\* first call, or a second close) changes nothing
CloseLeavesAbsent ==
    [][/\ CloseReturns => tn' = 0
       /\ CloseWithoutConnection =>
              UNCHANGED <<tn, openConns, stream, wire, lock, call, monitoring,
                          monitor_task, power_callback, task, ctl>>]_vars

\* close has returned after closing the transport raised
ClosedAfterTransportError == event.kind = "closed" /\ event.raised /\ tn = 0

\* C29: stop_power_monitoring always terminates: once it has cancelled the
\* loop the loop takes no step but its termination, whichever wait it is in,
\* and the stop call eventually returns with the loop terminated
StopAlwaysTerminates ==
    /\ [][\A t \in Tasks :
             (task[t].cancel /\ task'[t] # task[t]) => task'[t].pc = "done"]_vars
    /\ \A t \in Tasks :
          (ctl.pc = "stopping" /\ ctl.target = t)
              ~> (ctl.pc = "idle" /\ task[t].pc = "done" /\ t \in stopped)

\* a stop has returned and the loop of its session, which ends only by
\* cancellation, has terminated
StopReturnedAfterCancel ==
    \E t \in stopped : ctl.pc = "idle" /\ task[t].pc = "done" /\ monitor_task = 0

\* C30: the lock is released on every exit path of _send_command: it is held
\* only by a call that is between acquiring it and returning, a call that
\* has returned or raised does not hold it, and every call waiting for the
\* lock eventually acquires it
TokenAlwaysReleased ==
    /\ [](lock # 0 => InFlight(lock))
    /\ [](event.kind \in {"return", "raise"} => lock # event.c)
    /\ \A c \in Callers : (call[c].pc = "waitlock") ~> (call[c].pc # "waitlock")

\* a call has timed out on a connection that was closed under it, and
\* another call is waiting for the lock it released
TimedOutOnClosedConnection ==
    /\ event.kind = "return"
    /\ event.wrote
    /\ event.result = None
    /\ tn = 0
    /\ lock = 0
    /\ \E c \in Callers : call[c].pc = "waitlock"

\* C31: start_power_monitoring called while the running flag is set is a
\* no-op: no task is created and the registered callback and the referenced
\* task stay what they were
SecondStartIgnored ==
    [][(monitoring /\ event'.kind = "start")
          => UNCHANGED <<monitoring, monitor_task, power_callback, task>>]_vars

\* a start was ignored while the loop of the running session was listening
StartIgnoredWhileListening ==
    /\ event.kind = "start"
    /\ event.ignored
    /\ monitoring
    /\ monitor_task # 0
    /\ task[monitor_task].pc = "reading"
    /\ power_callback = monitor_task

\* a task that has entered the loop of line 367 and has not ended
InLoop(t) == task[t].pc \notin {"unborn", "created", "done"}

\* C32: at most one monitor loop is live, and whenever the running flag is
\* set there is a live task that self._monitor_task references and a
\* registered callback
OneReferencedLoop ==
    /\ Cardinality({t \in Tasks : InLoop(t)}) <= 1
    /\ monitoring => /\ monitor_task # 0
                     /\ Live(monitor_task)
                     /\ power_callback # 0

\* C33: an exception raised by the registered callback does not increment
\* the count of consecutive errors and does not close the connection
CallbackFailureNotCounted ==
    [][\A t \in Tasks :
          (task[t].pc = "callback" /\ task'[t].pc = "errsleep")
             => /\ task'[t].consecutive_errors = task[t].consecutive_errors
                /\ tn' = tn]_vars

ToggleSendsNegation ==
    vol.pc = "toggled" =>
        LET path == TogglePath[vol.kind] IN
        /\ vol.decoded = NoInt => vol.command = <<>>
        /\ vol.decoded = Some(TRUE) => vol.command = <<path, "=", "O", "f", "f">>
        /\ vol.decoded = Some(FALSE) => vol.command = <<path, "=", "O", "n">>
        /\ vol.response = None => vol.decoded = NoInt

\* the power query returned off and TOGGLE sent Main.Power=On
ToggledPowerOn ==
    /\ vol.pc = "toggled"
    /\ vol.kind = "TOGGLE"
    /\ vol.response = <<"Main.Power", "=", "O", "f", "f">>
    /\ vol.command = CmdPowerOn

\* C36: the stored power state changes only on a get_power result that is
\* not None or on a monitor callback; when update_status gets None the
\* stored state is left as it was and that value is what is published
StoredStateKeptOnAbsent ==
    [][/\ entity'.state # entity.state
          => \/ event'.kind = "power_change"
             \/ event'.kind = "update_status" /\ event'.power # NoInt
       /\ (event'.kind = "update_status" /\ event'.response = None)
          => event'.power = NoInt
       /\ (event'.kind = "update_status" /\ event'.power = NoInt)
          => /\ entity'.state = entity.state
             /\ entity'.published = entity.state]_vars

\* update_status got None while the stored state was on, and on was published
AbsentKeptOn ==
    /\ event.kind = "update_status"
    /\ event.response = None
    /\ entity.state = "ON"
    /\ entity.published = "ON"

====
